---- MODULE Spec2Model ----
(***************************************************************************)
(* Bitbucket Server client-certificate tools: the migration tool           *)
(* (migrate_repo.py), the exit codes of the other tool scripts and the     *)
(* Credential Resolver (get_bitbucket_auth).                               *)
(*                                                                         *)
(* Text is modelled as a sequence of one-character strings, so that the    *)
(* string tests of the code (startswith, in, replace, split) are computed  *)
(* and not assumed.                                                        *)
(***************************************************************************)
EXTENDS Integers, Sequences, FiniteSets, TLC

VARIABLES
    tool,            \* which tool script runs in this process
    pc,              \* position of the running script
    exitCode,        \* process exit code, NoExit while running
    dest,            \* the destination URL given as argv[3], with its parts
    github_token,    \* argv[4]
    branch,          \* --branch=..., None when absent
    tempExists,      \* os.path.exists(temp_dir)
    tempCreated,     \* os.makedirs(temp_dir) has run in this process
    origin,          \* the URL the remote named origin has in the clone, NoRemote if none
    tracking,        \* remote-tracking branches refs/remotes/origin/* of the clone
    locals,          \* local branches of the clone
    remote_branches, \* the list built at lines 894-899
    idx,             \* position of the for loop at line 904 in remote_branches
    cmds,            \* the git subprocesses run so far, with their outcome
    pushed,          \* what has reached which remote URL through git push
    out,             \* the lines printed so far
    failed,          \* the operation failures met so far
    creds,           \* the value of JIRA_USER_CREDS
    auth,            \* the result of get_bitbucket_auth
    envCert,         \* the value of JIRA_CLIENT_CERT, as a list of lines
    envKey,          \* the value of JIRA_CLIENT_KEY, as a list of lines
    email,           \* the value of KUBIYA_USER_EMAIL
    certFile,        \* content of /tmp/bitbucket_client.crt, NoFile if absent
    keyFile,         \* content of /tmp/bitbucket_client.key, NoFile if absent
    helperFile,      \* content of /tmp/git-credential-bitbucket, NoFile if absent
    gitconfig,       \* the settings present in the global git configuration
    destExists,      \* os.path.exists(destination) of clone_repository
    run,             \* per invocation: the function running and its position
    loc,             \* per invocation: the local variables of the code
    probe,           \* per invocation: what test_bitbucket_connection met
    gets             \* the HTTP GET requests issued so far

vars == <<tool, pc, exitCode, dest, github_token, branch, tempExists, tempCreated,
          origin, tracking, locals, remote_branches, idx, cmds, pushed, out,
          failed, creds, auth, envCert, envKey, email, certFile, keyFile,
          helperFile, gitconfig, destExists, run, loc, probe, gets>>

authVars == <<creds, auth>>

hostVars == <<envCert, envKey, email, certFile, keyFile, helperFile, gitconfig,
              destExists, run, loc, probe, gets>>

(***************************************************************************)
(* Bounds                                                                  *)
(***************************************************************************)
\* number of branches of the source repository
NumBranches == 3
\* longest JIRA_USER_CREDS value tried
MaxCredLen == 4

(***************************************************************************)
(* Python str operations on sequences of characters                        *)
(***************************************************************************)
None == <<>>

\* bool(s) of a str or None
Truthy(s) == s # <<>>

\* s.startswith(p)
StartsWith(s, p) == Len(s) >= Len(p) /\ SubSeq(s, 1, Len(p)) = p

\* sub in s
Contains(s, sub) ==
    \E i \in 0..(Len(s) - Len(sub)) : SubSeq(s, i + 1, i + Len(sub)) = sub

\* s.replace(old, new): every non-overlapping occurrence, left to right
RECURSIVE Replace(_, _, _)
Replace(s, old, new) ==
    IF Len(s) < Len(old) \/ Len(old) = 0 THEN s
    ELSE IF StartsWith(s, old)
         THEN new \o Replace(SubSeq(s, Len(old) + 1, Len(s)), old, new)
         ELSE <<Head(s)>> \o Replace(Tail(s), old, new)

\* index of the last sep in s at or before `from`, 0 if there is none
RECURSIVE FindLast(_, _, _)
FindLast(s, sep, from) ==
    IF from < 1 THEN 0
    ELSE IF s[from] = sep THEN from
    ELSE FindLast(s, sep, from - 1)

\* a split at the last separator, as s.rsplit(sep, 1) would make
SplitAtLast(s, sep) ==
    LET i == FindLast(s, sep, Len(s))
    IN  IF i = 0 THEN <<s>>
        ELSE <<SubSeq(s, 1, i - 1), SubSeq(s, i + 1, Len(s))>>

\* index of the first sep in s, 0 if there is none
RECURSIVE Find(_, _, _)
Find(s, sep, from) ==
    IF from > Len(s) THEN 0
    ELSE IF s[from] = sep THEN from
    ELSE Find(s, sep, from + 1)

\* s.split(sep, 1): a list of one or two parts
Split1(s, sep) ==
    LET i == Find(s, sep, 1)
    IN  IF i = 0 THEN <<s>>
        ELSE <<SubSeq(s, 1, i - 1), SubSeq(s, i + 1, Len(s))>>

(***************************************************************************)
(* Text constants of the code                                              *)
(***************************************************************************)
HTTPS == <<"h", "t", "t", "p", "s", ":", "/", "/">>
HTTP == <<"h", "t", "t", "p", ":", "/", "/">>
GITHUB_COM == <<"g", "i", "t", "h", "u", "b", ".", "c", "o", "m">>
ORIGIN_SLASH == <<"o", "r", "i", "g", "i", "n", "/">>
ORIGIN_HEAD == <<"o", "r", "i", "g", "i", "n", "/", "H", "E", "A", "D">>
HEAD_ARROW == <<" ", "-", ">", " ">>
AT == <<"@">>
NL == "\n"
SPACE == " "
TAGS == <<"-", "-", "t", "a", "g", "s">>
Digits == <<"1", "2", "3", "4", "5", "6", "7", "8", "9">>

\* another host than github.com
OTHER_HOST == <<"e", "v", "i", "l", ".", "o", "r", "g">>

\* get_clone_url: {server_url}/scm/{project_key}/{repo_slug}.git
BitbucketUrl == HTTPS \o <<"b", "b">> \o <<"/", "s", "c", "m", "/", "p", "/", "r", ".", "g", "i", "t">>

NoRemote == <<>>

(***************************************************************************)
(* The source repository on the Bitbucket server                          *)
(***************************************************************************)
BranchName(i) == <<"b", Digits[i]>>
SourceBranches == {BranchName(i) : i \in 1..NumBranches}
DefaultBranch == BranchName(1)

\* a branch whose name begins like the symbolic ref HEAD
HEADER == <<"H", "E", "A", "D", "E", "R">>

\* the branches the source repository can have
SourceRepos == {SourceBranches, SourceBranches \cup {HEADER}}

(***************************************************************************)
(* The command line of migrate_repo.py                                     *)
(***************************************************************************)
\* argv[3], kept with the parts a URL parser gives it
Url(scheme, userinfo, host, path) ==
    [scheme |-> scheme, userinfo |-> userinfo, host |-> host, path |-> path]

\* the text of a URL: scheme://[userinfo@]host/path
Render(u) ==
    u.scheme \o (IF u.userinfo = <<>> THEN <<>> ELSE u.userinfo \o AT)
             \o u.host \o u.path

DestUrls ==
    { Url(HTTPS, <<>>, GITHUB_COM, <<"/", "o", "/", "a">>),
      Url(HTTP, <<>>, GITHUB_COM, <<"/", "x", "/", "y">>),
      Url(HTTPS, <<>>, OTHER_HOST, <<"/">> \o GITHUB_COM \o <<"/", "x">>),
      Url(HTTPS, GITHUB_COM, OTHER_HOST, <<"/", "x">>),
      Url(HTTPS, <<>>, GITHUB_COM \o <<".">> \o OTHER_HOST, <<"/", "x">>),
      Url(HTTPS, <<>>, OTHER_HOST, <<"/", "x">>),
      Url(HTTP, <<>>, OTHER_HOST, <<"/", "x">>) }

\* argv[4]: a token, or the empty string
Tokens == {<<>>, <<"t", "k">>}

\* --branch=<name>, or absent
Branches == {None} \cup SourceBranches

Tools == {"migrate_repo", "clone_repo", "list_bitbucket_repos", "get_repo_info",
          "test_bitbucket"}

(***************************************************************************)
(* More str operations: strip, split on newlines                           *)
(***************************************************************************)
IsSpace(c) == c = SPACE \/ c = NL

RECURSIVE LStrip(_)
LStrip(s) == IF s # <<>> /\ IsSpace(Head(s)) THEN LStrip(Tail(s)) ELSE s

RECURSIVE RStrip(_)
RStrip(s) ==
    IF s # <<>> /\ IsSpace(s[Len(s)]) THEN RStrip(SubSeq(s, 1, Len(s) - 1)) ELSE s

\* s.strip()
Strip(s) == RStrip(LStrip(s))

\* s.split('\n'): the list of lines, one more than there are newlines
RECURSIVE SplitLines(_)
SplitLines(s) ==
    LET i == Find(s, NL, 1)
    IN  IF i = 0 THEN <<s>>
        ELSE <<SubSeq(s, 1, i - 1)>> \o SplitLines(SubSeq(s, i + 1, Len(s)))

(***************************************************************************)
(* git, as far as the migration depends on it                              *)
(***************************************************************************)
\* stdout of `git branch -r`: "  origin/HEAD -> origin/<default>" and a line
\* per remote-tracking branch, in name order; empty without such branches
RECURSIVE TrackingLines(_, _)
TrackingLines(tr, i) ==
    IF i > NumBranches THEN <<>>
    ELSE (IF BranchName(i) \in tr
          THEN <<SPACE, SPACE>> \o ORIGIN_SLASH \o BranchName(i) \o <<NL>>
          ELSE <<>>) \o TrackingLines(tr, i + 1)

GitBranchR(tr) ==
    IF tr = {} THEN <<>>
    ELSE <<SPACE, SPACE>> \o ORIGIN_HEAD \o HEAD_ARROW \o ORIGIN_SLASH
            \o DefaultBranch \o <<NL>>
            \o (IF HEADER \in tr
                THEN <<SPACE, SPACE>> \o ORIGIN_SLASH \o HEADER \o <<NL>>
                ELSE <<>>)
            \o TrackingLines(tr, 1)

\* whether the repository state lets the command exit with status 0
GitCanSucceed(cmd, arg) ==
    CASE cmd = "remote_remove" -> origin # NoRemote
      [] cmd = "remote_add"    -> origin = NoRemote
      [] cmd = "push"          -> origin # NoRemote /\ arg \in locals
      [] cmd = "push_tags"     -> origin # NoRemote
      [] cmd = "checkout"      -> arg \notin locals /\ arg \in tracking
      [] OTHER                 -> TRUE

\* the exit statuses a git command can have in the current state
GitOutcomes(cmd, arg) == IF GitCanSucceed(cmd, arg) THEN BOOLEAN ELSE {FALSE}

(***************************************************************************)
(* run_command                                                             *)
(***************************************************************************)
Line(tag, cmd, text, n) == [line |-> tag, cmd |-> cmd, text |-> text, n |-> n]

Say(tag) == Line(tag, "", <<>>, 0)

\* what run_command prints: the command, and the error when it fails
RunCommandPrints(cmd, text, ok) ==
    <<Line("Running", cmd, text, 0)>>
        \o (IF ok THEN <<>> ELSE <<Line("Command failed", cmd, text, 0)>>)

\* what run_command returns with capture_output: the stripped stdout, or False
RunCommandCaptured(ok, stdout) == IF ok THEN Strip(stdout) ELSE None

\* the record of a subprocess that has run
Ran(cmd, arg, ok) ==
    Append(cmds, [cmd |-> cmd, arg |-> arg, ok |-> ok, remote |-> origin])

(***************************************************************************)
(* migrate_repo.py                                                         *)
(***************************************************************************)
github_repo_url == Render(dest)

\* line 868: the scheme is tested only when the token is non-empty
SchemeRejected(url, token) == Truthy(token) /\ ~StartsWith(url, HTTPS)

\* line 873: "github.com" in github_repo_url
HostAccepted(url) == Contains(url, GITHUB_COM)

\* line 874
github_auth_url(url, token) == Replace(url, HTTPS, HTTPS \o token \o AT)

\* line 921: `except Exception` does not catch SystemExit, a BaseException
Caught(exc) == exc # "SystemExit"

\* an exception raised inside the try block of main
Raise(exc) ==
    IF Caught(exc)
    THEN pc' = "except" /\ exitCode' = exitCode
    ELSE pc' = "exit" /\ exitCode' = 1

\* lines 895-899: the names of the branches to push
RECURSIVE ParseBranches(_)
ParseBranches(lines) ==
    IF lines = <<>> THEN <<>>
    ELSE LET line == Strip(Head(lines))
         IN  (IF Truthy(line) /\ ~StartsWith(line, ORIGIN_HEAD)
                              /\ StartsWith(line, ORIGIN_SLASH)
              THEN <<Replace(line, ORIGIN_SLASH, <<>>)>>
              ELSE <<>>) \o ParseBranches(Tail(lines))

\* a loop that stops at the first failed push
NextInLoopBreak(result, i, n) ==
    IF i < n /\ result THEN "checkout" ELSE "push_tags"

\* the loop at lines 904-907 goes on whatever run_command returned
NextInLoop(result, i, n) == IF i < n THEN "checkout" ELSE "push_tags"

\* the position after `git remote add`: line 886
PushPhase(b) == IF Truthy(b) THEN "push_requested" ELSE "list_branches"

\* a path at which no file exists
NoFile == <<"(absent)">>

\* no function of github_funcs.py or clone_repo.py has run: no file written,
\* nothing in the global git configuration
HostIdle ==
    /\ envCert = <<>> /\ envKey = <<>> /\ email = <<>>
    /\ certFile = NoFile /\ keyFile = NoFile /\ helperFile = NoFile
    /\ gitconfig = {}
    /\ destExists = FALSE
    /\ run = <<>> /\ loc = <<>> /\ probe = <<>>
    /\ gets = 0

Init ==
    /\ tool \in Tools
    /\ pc = "start"
    /\ exitCode = 0
    /\ dest \in DestUrls
    /\ github_token \in Tokens
    /\ branch \in Branches
    /\ tempExists \in BOOLEAN
    /\ tempCreated = FALSE
    /\ origin = NoRemote
    /\ tracking = {}
    /\ locals = {}
    /\ remote_branches = <<>>
    /\ idx = 1
    /\ cmds = <<>>
    /\ pushed = {}
    /\ out = <<>>
    /\ failed = {}
    /\ creds = <<>>
    /\ auth = [kind |-> "none", username |-> <<>>, password |-> <<>>]
    /\ HostIdle

gitVars == <<origin, tracking, locals, remote_branches, idx, cmds, pushed>>
argVars == <<tool, dest, github_token, branch>>

\* lines 832-838
MigrateProbe ==
    /\ tool = "migrate_repo" /\ pc = "start"
    /\ \E ok \in BOOLEAN :
        IF ok
        THEN /\ pc' = "mktemp"
             /\ out' = out \o <<Line("Starting migration", "", github_repo_url, 0)>>
             /\ UNCHANGED <<exitCode, failed>>
        ELSE /\ pc' = "exit" /\ exitCode' = 1
             /\ failed' = failed \cup {"probe"}
             /\ out' = out \o <<Line("Starting migration", "", github_repo_url, 0),
                                Say("Failed to establish connection")>>
    /\ UNCHANGED <<argVars, gitVars, tempExists, tempCreated, authVars, hostVars>>

\* lines 840-846
MigrateMakeTemp ==
    /\ tool = "migrate_repo" /\ pc = "mktemp"
    /\ tempExists' = TRUE
    /\ tempCreated' = TRUE
    /\ out' = out \o (IF tempExists THEN <<Say("Cleaning up existing directory")>>
                      ELSE <<>>)
    /\ pc' = "clone"
    /\ UNCHANGED <<argVars, gitVars, exitCode, failed, authVars, hostVars>>

\* lines 849-857; clone_repository returns True after `git clone` has
\* made a clone with the remote origin and its remote-tracking branches
MigrateClone ==
    /\ tool = "migrate_repo" /\ pc = "clone"
    /\ \E success \in BOOLEAN :
        /\ cmds' = Ran("clone", branch, success)
        /\ IF success
           THEN /\ origin' = BitbucketUrl
                /\ tracking' \in SourceRepos
                /\ locals' = {IF Truthy(branch) THEN branch ELSE DefaultBranch}
                /\ out' = out \o <<Say("Step 1"), Say("Successfully cloned")>>
                /\ pc' = "chdir"
                /\ UNCHANGED <<exitCode, failed>>
           ELSE /\ out' = out \o <<Say("Step 1"), Say("Failed to clone")>>
                /\ failed' = failed \cup {"clone"}
                /\ Raise("SystemExit")
                /\ UNCHANGED <<origin, tracking, locals>>
    /\ UNCHANGED <<argVars, remote_branches, idx, pushed, tempExists, tempCreated,
                   authVars, hostVars>>

\* line 860; os.chdir raises OSError when it cannot enter the directory
MigrateChdir ==
    /\ tool = "migrate_repo" /\ pc = "chdir"
    /\ \E ok \in BOOLEAN :
        IF ok
        THEN pc' = "remove_origin" /\ UNCHANGED <<exitCode, failed>>
        ELSE Raise("OSError") /\ failed' = failed \cup {"chdir"}
    /\ UNCHANGED <<argVars, gitVars, out, tempExists, tempCreated, authVars, hostVars>>

\* lines 862-865
MigrateRemoveOrigin ==
    /\ tool = "migrate_repo" /\ pc = "remove_origin"
    /\ \E ok \in GitOutcomes("remote_remove", <<>>) :
        /\ cmds' = Ran("remote_remove", <<>>, ok)
        /\ out' = out \o <<Say("Step 2")>> \o RunCommandPrints("remote_remove", <<>>, ok)
        /\ origin' = IF ok THEN NoRemote ELSE origin
        /\ tracking' = IF ok THEN {} ELSE tracking
        /\ failed' = failed \cup (IF ok THEN {} ELSE {"remote_remove"})
    /\ pc' = "check_url"
    /\ UNCHANGED <<argVars, locals, remote_branches, idx, pushed, exitCode,
                   tempExists, tempCreated, authVars, hostVars>>

\* lines 867-877
MigrateCheckUrl ==
    /\ tool = "migrate_repo" /\ pc = "check_url"
    /\ IF SchemeRejected(github_repo_url, github_token)
       THEN /\ out' = out \o <<Say("GitHub repo URL must start with https://")>>
            /\ failed' = failed \cup {"url_rejected"}
            /\ Raise("SystemExit")
       ELSE IF ~HostAccepted(github_repo_url)
       THEN /\ out' = out \o <<Say("Only GitHub.com repositories are supported")>>
            /\ failed' = failed \cup {"url_rejected"}
            /\ Raise("SystemExit")
       ELSE /\ pc' = "add_remote"
            /\ UNCHANGED <<out, failed, exitCode>>
    /\ UNCHANGED <<argVars, gitVars, tempExists, tempCreated, authVars, hostVars>>

\* lines 879-883
MigrateAddRemote ==
    /\ tool = "migrate_repo" /\ pc = "add_remote"
    /\ LET url == github_auth_url(github_repo_url, github_token)
       IN  \E ok \in GitOutcomes("remote_add", url) :
            /\ cmds' = Ran("remote_add", url, ok)
            /\ out' = out \o RunCommandPrints("remote_add", url, ok)
                          \o <<Say("Git remotes configured"), Say("Step 3")>>
            /\ origin' = IF ok THEN url ELSE origin
            /\ failed' = failed \cup (IF ok THEN {} ELSE {"remote_add"})
    /\ pc' = PushPhase(branch)
    /\ UNCHANGED <<argVars, tracking, locals, remote_branches, idx, pushed,
                   exitCode, tempExists, tempCreated, authVars, hostVars>>

\* lines 886-889
MigratePushRequested ==
    /\ tool = "migrate_repo" /\ pc = "push_requested"
    /\ \E ok \in GitOutcomes("push", branch) :
        /\ cmds' = Ran("push", branch, ok)
        /\ out' = out \o RunCommandPrints("push", branch, ok)
                      \o <<Line("Pushed branch", "", branch, 0)>>
        /\ pushed' = IF ok THEN pushed \cup {[remote |-> origin, ref |-> branch]}
                     ELSE pushed
        /\ failed' = failed \cup (IF ok THEN {} ELSE {"push"})
    /\ pc' = "finish"
    /\ UNCHANGED <<argVars, origin, tracking, locals, remote_branches, idx,
                   exitCode, tempExists, tempCreated, authVars, hostVars>>

\* lines 891-901
MigrateListBranches ==
    /\ tool = "migrate_repo" /\ pc = "list_branches"
    /\ \E ok \in GitOutcomes("branch_r", <<>>) :
        LET branches_output == RunCommandCaptured(ok, GitBranchR(tracking))
            found == ParseBranches(SplitLines(branches_output))
        IN  /\ cmds' = Ran("branch_r", <<>>, ok)
            /\ IF Truthy(branches_output)
               THEN /\ remote_branches' = found
                    /\ out' = out \o RunCommandPrints("branch_r", <<>>, ok)
                                  \o <<Line("Found branches to push", "", <<>>,
                                            Len(found))>>
                    /\ pc' = NextInLoop(TRUE, 0, Len(found))
               ELSE /\ out' = out \o RunCommandPrints("branch_r", <<>>, ok)
                    /\ pc' = "push_tags"
                    /\ UNCHANGED remote_branches
            /\ failed' = failed \cup (IF ok THEN {} ELSE {"branch_r"})
    /\ idx' = 1
    /\ UNCHANGED <<argVars, origin, tracking, locals, pushed, exitCode,
                   tempExists, tempCreated, authVars, hostVars>>

\* lines 904-906
MigrateCheckout ==
    /\ tool = "migrate_repo" /\ pc = "checkout"
    /\ LET branch_name == remote_branches[idx]
       IN  \E ok \in GitOutcomes("checkout", branch_name) :
            /\ cmds' = Ran("checkout", branch_name, ok)
            /\ out' = out \o <<Line("Pushing branch", "", branch_name, 0)>>
                          \o RunCommandPrints("checkout", branch_name, ok)
            /\ locals' = IF ok THEN locals \cup {branch_name} ELSE locals
            /\ failed' = failed \cup (IF ok THEN {} ELSE {"checkout"})
    /\ pc' = "push_branch"
    /\ UNCHANGED <<argVars, origin, tracking, remote_branches, idx, pushed,
                   exitCode, tempExists, tempCreated, authVars, hostVars>>

\* line 907
MigratePushBranch ==
    /\ tool = "migrate_repo" /\ pc = "push_branch"
    /\ LET branch_name == remote_branches[idx]
       IN  \E ok \in GitOutcomes("push", branch_name) :
            /\ cmds' = Ran("push", branch_name, ok)
            /\ out' = out \o RunCommandPrints("push", branch_name, ok)
            /\ pushed' = IF ok
                         THEN pushed \cup {[remote |-> origin, ref |-> branch_name]}
                         ELSE pushed
            /\ failed' = failed \cup (IF ok THEN {} ELSE {"push"})
            /\ pc' = NextInLoop(ok, idx, Len(remote_branches))
    /\ idx' = idx + 1
    /\ UNCHANGED <<argVars, origin, tracking, locals, remote_branches, exitCode,
                   tempExists, tempCreated, authVars, hostVars>>

\* lines 909-911
MigratePushTags ==
    /\ tool = "migrate_repo" /\ pc = "push_tags"
    /\ \E ok \in GitOutcomes("push_tags", TAGS) :
        /\ cmds' = Ran("push_tags", TAGS, ok)
        /\ out' = out \o RunCommandPrints("push_tags", TAGS, ok)
                      \o <<Say("Pushed all branches and tags")>>
        /\ pushed' = IF ok THEN pushed \cup {[remote |-> origin, ref |-> TAGS]}
                     ELSE pushed
        /\ failed' = failed \cup (IF ok THEN {} ELSE {"push_tags"})
    /\ pc' = "finish"
    /\ UNCHANGED <<argVars, origin, tracking, locals, remote_branches, idx,
                   exitCode, tempExists, tempCreated, authVars, hostVars>>

\* lines 913-919, and the return of main with exit status 0
MigrateFinish ==
    /\ tool = "migrate_repo" /\ pc = "finish"
    /\ out' = out \o <<Say("Migration completed successfully"),
                       Line("Repository migrated to", "", github_repo_url, 0),
                       Say("Cleaned up temporary directory")>>
    /\ tempExists' = FALSE
    /\ pc' = "exit"
    /\ UNCHANGED <<argVars, gitVars, exitCode, failed, tempCreated, authVars, hostVars>>

\* lines 921-930
MigrateExcept ==
    /\ tool = "migrate_repo" /\ pc = "except"
    /\ out' = out \o <<Say("Migration failed")>>
    /\ tempExists' = FALSE
    /\ pc' = "exit" /\ exitCode' = 1
    /\ UNCHANGED <<argVars, gitVars, failed, tempCreated, authVars, hostVars>>

(***************************************************************************)
(* The other tool scripts: what decides their exit code                    *)
(***************************************************************************)
otherVars == <<argVars, gitVars, tempExists, tempCreated, authVars, hostVars>>

\* test_bitbucket.py main
TestBitbucketMain ==
    /\ tool = "test_bitbucket" /\ pc = "start"
    /\ \E success \in BOOLEAN :
        /\ exitCode' = IF success THEN 0 ELSE 1
        /\ failed' = failed \cup (IF success THEN {} ELSE {"probe"})
        /\ out' = out \o <<Say(IF success THEN "connection test successful"
                               ELSE "connection test failed")>>
    /\ pc' = "exit"
    /\ UNCHANGED otherVars

\* clone_repo.py main, without --list and --test: clone_repository returns
\* False when the probe, the access test or git clone fails
CloneRepoMain ==
    /\ tool = "clone_repo" /\ pc = "start"
    /\ \E success \in BOOLEAN :
        /\ exitCode' = IF success THEN 0 ELSE 1
        /\ \E why \in {"probe", "access", "clone"} :
            failed' = failed \cup (IF success THEN {} ELSE {why})
        /\ out' = out \o <<Say(IF success THEN "Clone operation completed"
                               ELSE "Clone operation failed")>>
    /\ pc' = "exit"
    /\ UNCHANGED otherVars

\* list_bitbucket_repos.py main, lines 182-187
ListReposProbe ==
    /\ tool = "list_bitbucket_repos" /\ pc = "start"
    /\ \E ok \in BOOLEAN :
        IF ok
        THEN /\ pc' = "test_repos"
             /\ out' = out \o <<Say("Basic connection works")>>
             /\ UNCHANGED <<exitCode, failed>>
        ELSE /\ pc' = "exit" /\ exitCode' = 1
             /\ failed' = failed \cup {"probe"}
             /\ out' = out \o <<Say("Failed to establish basic connection")>>
    /\ UNCHANGED otherVars

\* list_bitbucket_repos.py main, lines 189-236: one repository is tested,
\* the result is printed and main returns
ListReposMain ==
    /\ tool = "list_bitbucket_repos" /\ pc = "test_repos"
    /\ \E success \in BOOLEAN :
        LET success_count == IF success THEN 1 ELSE 0
        IN  /\ out' = out \o <<Line("FINAL RESULT", "", <<>>, success_count),
                               Say(IF success_count > 0 THEN "SUCCESS" ELSE "FAILED")>>
            /\ failed' = failed \cup (IF success_count > 0 THEN {}
                                      ELSE {"no_accessible_repo"})
    /\ pc' = "exit"
    /\ UNCHANGED <<exitCode, otherVars>>

\* get_repo_info.py main, lines 454-459
RepoInfoProbe ==
    /\ tool = "get_repo_info" /\ pc = "start"
    /\ \E ok \in BOOLEAN :
        IF ok
        THEN /\ pc' = "repo_info"
             /\ out' = out \o <<Say("Basic connection works")>>
             /\ UNCHANGED <<exitCode, failed>>
        ELSE /\ pc' = "exit" /\ exitCode' = 1
             /\ failed' = failed \cup {"probe"}
             /\ out' = out \o <<Say("Failed to establish connection")>>
    /\ UNCHANGED otherVars

\* get_repo_info.py main, lines 461-468
RepoInfoMain ==
    /\ tool = "get_repo_info" /\ pc = "repo_info"
    /\ \E success \in BOOLEAN :
        /\ exitCode' = IF success THEN 0 ELSE 1
        /\ failed' = failed \cup (IF success THEN {} ELSE {"repo_info"})
    /\ pc' = "exit"
    /\ UNCHANGED <<out, otherVars>>

Next ==
    \/ MigrateProbe
    \/ MigrateMakeTemp
    \/ MigrateClone
    \/ MigrateChdir
    \/ MigrateRemoveOrigin
    \/ MigrateCheckUrl
    \/ MigrateAddRemote
    \/ MigratePushRequested
    \/ MigrateListBranches
    \/ MigrateCheckout
    \/ MigratePushBranch
    \/ MigratePushTags
    \/ MigrateFinish
    \/ MigrateExcept
    \/ TestBitbucketMain
    \/ CloneRepoMain
    \/ ListReposProbe
    \/ ListReposMain
    \/ RepoInfoProbe
    \/ RepoInfoMain

Spec == Init /\ [][Next]_vars

(***************************************************************************)
(* The Credential Resolver                                                 *)
(***************************************************************************)
COLON == ":"
CredAlphabet == {"a", "p", COLON}

\* the values of JIRA_USER_CREDS tried; the empty one stands for an unset
\* variable too (`if not creds`)
CredStrings == UNION {[1..n -> CredAlphabet] : n \in 0..MaxCredLen}

AuthResult(kind, username, password) ==
    [kind |-> kind, username |-> username, password |-> password]

\* github_funcs.py, get_bitbucket_auth
get_bitbucket_auth(c) ==
    IF ~Truthy(c) THEN AuthResult("ValueError", <<>>, <<>>)
    ELSE LET parts == Split1(c, COLON)
         IN  IF Len(parts) = 2 THEN AuthResult("ok", parts[1], parts[2])
             ELSE AuthResult("ValueError", <<>>, <<>>)

InitAuth ==
    /\ tool = "resolver"
    /\ pc = "start"
    /\ exitCode = 0
    /\ dest = Url(HTTPS, <<>>, GITHUB_COM, <<>>)
    /\ github_token = <<>>
    /\ branch = None
    /\ tempExists = FALSE
    /\ tempCreated = FALSE
    /\ origin = NoRemote
    /\ tracking = {}
    /\ locals = {}
    /\ remote_branches = <<>>
    /\ idx = 1
    /\ cmds = <<>>
    /\ pushed = {}
    /\ out = <<>>
    /\ failed = {}
    /\ creds \in CredStrings
    /\ auth = AuthResult("none", <<>>, <<>>)
    /\ HostIdle

GetBitbucketAuth ==
    /\ tool = "resolver" /\ pc = "start"
    /\ auth' = get_bitbucket_auth(creds)
    /\ pc' = "returned"
    /\ UNCHANGED <<tool, exitCode, dest, github_token, branch, tempExists,
                   tempCreated, gitVars, out, failed, creds, hostVars>>

NextAuth == GetBitbucketAuth

SpecAuth == InitAuth /\ [][NextAuth]_vars

(***************************************************************************)
(* Properties of the migration tool                                        *)
(***************************************************************************)
Migrating == tool = "migrate_repo"
Exited == pc = "exit"

CmdIndexes(names) == {i \in DOMAIN cmds : cmds[i].cmd \in names}
FailedIndexes(names) == {i \in CmdIndexes(names) : ~cmds[i].ok}
PushCmds == {"push", "push_tags"}

\* the branch names given to `git push -u origin <name>`, in execution order
BranchPushes ==
    LET ps == SelectSeq(cmds, LAMBDA c : c.cmd = "push")
    IN  [i \in DOMAIN ps |-> ps[i].arg]

\* the push phase (Step 3) begins right after `git remote add` has run
ReachedPushPhase == CmdIndexes({"remote_add"}) # {}

\* C1: once the temporary working directory has been created it no longer
\* exists when the process exits, on every path (success, clone failure,
\* rejected destination URL, exception).
C1_TempDirGoneAtExit ==
    (Migrating /\ Exited /\ tempCreated) => ~tempExists

\* C2: a failed clone, `git remote remove origin` or `git remote add origin`
\* halts the run: no later step is executed and the tool ends in Failure.
C2_FailedStepHalts ==
    Migrating =>
        \A i \in FailedIndexes({"clone", "remote_remove", "remote_add"}) :
            /\ i = Len(cmds)
            /\ Exited => exitCode = 1

\* C3: a destination URL that does not start with https:// is rejected for
\* every token, the empty one included: the tool exits with failure and no
\* git push is executed.
C3_NonHttpsRejected ==
    (Migrating /\ ~StartsWith(github_repo_url, HTTPS)) =>
        /\ CmdIndexes(PushCmds \cup {"remote_add"}) = {}
        /\ Exited => exitCode = 1

\* C4: the destination remote is added and pushed to only when the host of
\* the destination URL is github.com.
C4_OnlyExpectedHost ==
    (Migrating /\ CmdIndexes(PushCmds \cup {"remote_add"}) # {}) =>
        dest.host = GITHUB_COM

\* C5: in an all-branches migration a failed push or checkout of one branch
\* does not stop the run: every selected branch is pushed, in order, and the
\* tag push executes afterwards.
C5_FailedPushDoesNotStop ==
    (Migrating /\ ~Truthy(branch)) =>
        /\ pc \in {"checkout", "push_branch"} =>
                BranchPushes = SubSeq(remote_branches, 1, idx - 1)
        /\ (pc \in {"finish", "exit"} /\ CmdIndexes({"branch_r"}) # {}) =>
                /\ BranchPushes = remote_branches
                /\ CmdIndexes({"push_tags"}) = {Len(cmds)}

\* a run in which the push of one branch and the checkout of another failed,
\* later branches were pushed and the tags were pushed
C5_Witness ==
    /\ Migrating /\ Exited /\ ~Truthy(branch)
    /\ Len(remote_branches) = NumBranches
    /\ \E i \in FailedIndexes({"push"}) :
        \E j \in CmdIndexes({"push"}) : j > i /\ cmds[j].ok
    /\ \E i \in FailedIndexes({"checkout"}) :
        \E j \in CmdIndexes({"push"}) : j > i + 1
    /\ CmdIndexes({"push_tags"}) # {}

SucceededCount == Cardinality(CmdIndexes({"push"}) \ FailedIndexes({"push"}))
FailedCount == Cardinality(FailedIndexes({"push"}))
ReportLines(tag) == {k \in DOMAIN out : out[k].line = tag}

\* C6: at the end of a migration the tool reports how many branch pushes
\* succeeded and how many failed, the counts equal the actual outcomes, and a
\* run with a failed push is not reported as having pushed all branches.
C6_ReportMatchesOutcomes ==
    (Migrating /\ Exited /\ ReachedPushPhase) =>
        /\ \E k \in ReportLines("Branches succeeded") : out[k].n = SucceededCount
        /\ \E k \in ReportLines("Branches failed") : out[k].n = FailedCount
        /\ FailedCount > 0 => ReportLines("Pushed all branches and tags") = {}

\* every git command run so far has exited with status 0
AllCommandsSucceeded == \A i \in DOMAIN cmds : cmds[i].ok

\* an https URL on github.com, given with a token
ProperDestination ==
    /\ dest.scheme = HTTPS /\ dest.host = GITHUB_COM /\ dest.userinfo = <<>>
    /\ Truthy(github_token)

\* C7: with no branch requested and every git command succeeding, when the
\* tool finishes every branch of the source repository and the tags have been
\* pushed to the destination and the temporary directory is absent.
C7_AllBranchesMigrated ==
    (/\ Migrating /\ Exited /\ exitCode = 0 /\ ~Truthy(branch)
     /\ ProperDestination
     /\ CmdIndexes({"push_tags"}) # {}
     /\ AllCommandsSucceeded) =>
        /\ \A b \in SourceBranches :
            [remote |-> github_auth_url(github_repo_url, github_token), ref |-> b]
                \in pushed
        /\ [remote |-> github_auth_url(github_repo_url, github_token), ref |-> TAGS]
                \in pushed
        /\ ~tempExists

\* C8: every run that reaches the push phase executes the tag push exactly
\* once, with a requested branch and without, and a failing tag push does not
\* make the run fail.
C8_TagPushExactlyOnce ==
    (Migrating /\ Exited /\ ReachedPushPhase) =>
        /\ Cardinality(CmdIndexes({"push_tags"})) = 1
        /\ exitCode = 0

\* the failures that must give exit code 1
FatalFailures ==
    {"probe", "no_accessible_repo", "repo_info", "clone", "access",
     "url_rejected", "remote_add"}

\* C9: a tool process exits with code 0 only when its operation succeeded and
\* with code 1 on every failure (probe, no accessible repository, repository
\* info, clone, rejected destination URL, destination remote not configured).
C9_ExitCodeReflectsFailure ==
    Exited =>
        /\ exitCode \in {0, 1}
        /\ exitCode = 0 => failed \cap FatalFailures = {}
        /\ failed \cap FatalFailures # {} => exitCode = 1

(***************************************************************************)
(* Properties of the Credential Resolver                                   *)
(***************************************************************************)
\* C10: for a JIRA_USER_CREDS value with at least one colon the resolver
\* returns (text before the first colon, everything after it): the username
\* holds no colon and username + ":" + password is the input.
C10_SplitOnFirstColon ==
    (pc = "returned" /\ Contains(creds, <<COLON>>)) =>
        /\ auth.kind = "ok"
        /\ ~Contains(auth.username, <<COLON>>)
        /\ auth.username \o <<COLON>> \o auth.password = creds

\* a resolved credential whose password holds a colon of its own
C10_Witness ==
    /\ pc = "returned" /\ auth.kind = "ok"
    /\ auth.username # <<>>
    /\ Contains(auth.password, <<COLON>>)

\* C11: for an empty or missing JIRA_USER_CREDS the Credential Resolver
\* returns a no-credentials result as a value and raises nothing.
C11_NoCredentialsIsAValue ==
    (pc = "returned" /\ ~Truthy(creds)) => auth.kind # "ValueError"

(***************************************************************************)
(* The Certificate Provisioner: setup_client_cert_files                    *)
(***************************************************************************)
\* longest JIRA_CLIENT_CERT / JIRA_CLIENT_KEY value tried, in lines
MaxPemLines == 3

DASHES == <<"-", "-", "-", "-", "-">>
BEGIN_ == <<"B", "E", "G", "I", "N", " ">>
END_ == <<"E", "N", "D", " ">>
CERTIFICATE == <<"C", "E", "R", "T", "I", "F", "I", "C", "A", "T", "E">>
PRIVATE_KEY == <<"P", "R", "I", "V", "A", "T", "E", " ", "K", "E", "Y">>
RSA_PRIVATE_KEY == <<"R", "S", "A", " ", "P", "R", "I", "V", "A", "T", "E", " ", "K", "E", "Y">>

\* "-----BEGIN <label>-----" and "-----END <label>-----"
BeginLine(label) == DASHES \o BEGIN_ \o label \o DASHES
EndLine(label) == DASHES \o END_ \o label \o DASHES

\* a line of base64 text
BODY == <<"M", "I", "I">>

\* '\n'.join(lines)
RECURSIVE JoinLines(_)
JoinLines(lines) ==
    IF lines = <<>> THEN <<>>
    ELSE IF Len(lines) = 1 THEN lines[1]
    ELSE lines[1] \o <<NL>> \o JoinLines(Tail(lines))

\* the lines a certificate / key value is built from
CertLines == {BODY, BeginLine(CERTIFICATE), EndLine(CERTIFICATE)}
KeyLines == {BODY, BeginLine(PRIVATE_KEY), EndLine(PRIVATE_KEY),
             BeginLine(RSA_PRIVATE_KEY), EndLine(RSA_PRIVATE_KEY)}

\* the empty list stands for an unset or empty variable
PemInputs(lines) == UNION {[1..n -> lines] : n \in 0..MaxPemLines}

CLIENT_CERT == JoinLines(envCert)
CLIENT_KEY == JoinLines(envKey)

\* armor that lacks its END line
ArmorWithoutEnd(text, label) ==
    IF ~Contains(text, BEGIN_ \o label)
    THEN BeginLine(label) \o <<NL>> \o text
    ELSE text

\* lines 77-82: the markers are added when "BEGIN <label>" is not in the value
EnsureArmor(text, label) ==
    IF ~Contains(text, BEGIN_ \o label)
    THEN BeginLine(label) \o <<NL>> \o text \o <<NL>> \o EndLine(label)
    ELSE text

\* lines 60-61: both values must be set and non-empty
SecretsMissing(cert, key) == ~Truthy(cert) \/ ~Truthy(key)

\* lines 105-106: an empty file is refused after writing
WrittenEmpty(cert_content, key_content) ==
    Len(cert_content) = 0 \/ Len(key_content) = 0

\* setup_client_cert_files: what is in the two files afterwards and whether
\* it returns the paths or raises ValueError
ProvisionRaises(cert, key) ==
    \/ SecretsMissing(cert, key)
    \/ WrittenEmpty(EnsureArmor(cert, CERTIFICATE), EnsureArmor(key, PRIVATE_KEY))

\* a provisioner that does not write the certificate
CertFileNotWritten(cert, key, before) == before

CertFileAfter(cert, key, before) ==
    IF SecretsMissing(cert, key) THEN before ELSE EnsureArmor(cert, CERTIFICATE)

KeyFileAfter(cert, key, before) ==
    IF SecretsMissing(cert, key) THEN before ELSE EnsureArmor(key, PRIVATE_KEY)

InitCert ==
    /\ tool = "provisioner"
    /\ pc = "start"
    /\ exitCode = 0
    /\ dest = Url(HTTPS, <<>>, GITHUB_COM, <<>>)
    /\ github_token = <<>>
    /\ branch = None
    /\ tempExists = FALSE
    /\ tempCreated = FALSE
    /\ origin = NoRemote
    /\ tracking = {}
    /\ locals = {}
    /\ remote_branches = <<>>
    /\ idx = 1
    /\ cmds = <<>>
    /\ pushed = {}
    /\ out = <<>>
    /\ failed = {}
    /\ creds = <<>>
    /\ auth = AuthResult("none", <<>>, <<>>)
    /\ envCert \in PemInputs(CertLines)
    /\ envKey \in PemInputs(KeyLines)
    /\ email = <<>>
    /\ certFile = NoFile /\ keyFile = NoFile /\ helperFile = NoFile
    /\ gitconfig = {}
    /\ destExists = FALSE
    /\ run = <<>> /\ loc = <<>> /\ probe = <<>>
    /\ gets = 0

SetupClientCertFiles ==
    /\ tool = "provisioner" /\ pc = "start"
    /\ certFile' = CertFileAfter(CLIENT_CERT, CLIENT_KEY, certFile)
    /\ keyFile' = KeyFileAfter(CLIENT_CERT, CLIENT_KEY, keyFile)
    /\ pc' = IF ProvisionRaises(CLIENT_CERT, CLIENT_KEY) THEN "raised" ELSE "returned"
    /\ UNCHANGED <<tool, exitCode, dest, github_token, branch, tempExists,
                   tempCreated, gitVars, out, failed, authVars, envCert, envKey,
                   email, helperFile, gitconfig, destExists, run, loc, probe, gets>>

NextCert == SetupClientCertFiles

SpecCert == InitCert /\ [][NextCert]_vars

\* the lines of a file that are PEM armor
ArmorLines(file, kind) ==
    LET lines == SplitLines(file)
    IN  {i \in DOMAIN lines : StartsWith(lines[i], DASHES \o kind)}

HasArmor(text) == Contains(text, DASHES \o BEGIN_) \/ Contains(text, DASHES \o END_)

\* the file is the value between one BEGIN line and one END line
WrappedOnce(file, text, label) ==
    /\ file # NoFile /\ Len(file) > 0
    /\ Cardinality(ArmorLines(file, BEGIN_)) = 1
    /\ Cardinality(ArmorLines(file, END_)) = 1
    /\ file = BeginLine(label) \o <<NL>> \o text \o <<NL>> \o EndLine(label)

\* C14: for a certificate and a key value without PEM armor, each file
\* written is non-empty and holds exactly one BEGIN line and one END line,
\* around the value.
C14_UnarmoredInputWrappedOnce ==
    pc = "returned" =>
        /\ ~HasArmor(CLIENT_CERT) => WrappedOnce(certFile, CLIENT_CERT, CERTIFICATE)
        /\ ~HasArmor(CLIENT_KEY) => WrappedOnce(keyFile, CLIENT_KEY, PRIVATE_KEY)

\* files written from a certificate and a key of several unarmored lines
C14_Witness ==
    /\ pc = "returned"
    /\ ~HasArmor(CLIENT_CERT) /\ ~HasArmor(CLIENT_KEY)
    /\ Len(envCert) > 1 /\ Len(envKey) > 1
    /\ certFile # NoFile /\ keyFile # NoFile

\* one block: the first line is its BEGIN line, the last its END line and no
\* other line is armor
WellDelimited(file, label) ==
    LET lines == SplitLines(file)
    IN  /\ file # NoFile
        /\ lines[1] = BeginLine(label)
        /\ lines[Len(lines)] = EndLine(label)
        /\ ArmorLines(file, <<>>) = {1, Len(lines)}

\* C15: whenever the provisioner returns, the certificate file holds one
\* correctly delimited CERTIFICATE block and the key file one correctly
\* delimited PRIVATE KEY block, without nested or unmatched BEGIN/END lines.
C15_FilesWellDelimited ==
    pc = "returned" =>
        /\ WellDelimited(certFile, CERTIFICATE)
        /\ WellDelimited(keyFile, PRIVATE_KEY)

(***************************************************************************)
(* The tools on a host: the connectivity probe, the transport              *)
(* configurators and the repository operations, with the files and the     *)
(* global git configuration they share                                     *)
(***************************************************************************)
\* git config commands that may fail in one invocation
MaxConfigFailures == 1

HTTP_OK == 200
HTTP_UNAUTHORIZED == 401

\* the state the migration tool and the resolver own
toolVars == <<tool, pc, exitCode, dest, github_token, branch, tempExists,
              tempCreated, gitVars, out, failed, auth>>
envVars == <<creds, envCert, envKey, email>>

\* the invocations on the host
Procs == DOMAIN run

\* the entry points: four tool scripts and test_git_dual_auth called directly
Entries == {"clone_repo", "clone_repo_test", "get_repo_info",
            "list_bitbucket_repos", "test_bitbucket", "test_git_dual_auth"}

\* the first position of an entry point
EntryAt(t) ==
    CASE t = "test_git_dual_auth" -> "dual_setup"
      [] t = "clone_repo_test" -> "access_setup"
      [] OTHER -> "probe"

NewLoc ==
    [cert_path |-> FALSE, access |-> FALSE, result |-> FALSE,
     username |-> <<>>, password |-> <<>>, returned_creds |-> FALSE,
     cfg |-> 1, cfgFailures |-> 0, auth_status |-> "", prompted |-> FALSE,
     raised |-> FALSE, net |-> <<>>, exit |-> 0, cleanups |-> 0, mark |-> 0,
     listing |-> [ran |-> FALSE, ok |-> FALSE, stdout |-> <<>>,
                  success |-> FALSE, refs |-> <<>>]]

NoProbe ==
    [done |-> FALSE, result |-> FALSE, raised |-> FALSE, gets |-> 0,
     outcome |-> [kind |-> "none", status |-> 0, json |-> FALSE]]

At(p, pos) == run[p].at = pos
ToolOf(p) == run[p].tool
Goto(p, pos) == run' = [run EXCEPT ![p].at = pos]

\* JIRA_USER_CREDS: unset, user and password, no colon, empty password,
\* empty user name
CredValues == {<<>>, <<"u", ":", "p">>, <<"u">>, <<"u", ":">>, <<COLON, "p">>}
EmailValues == {<<>>, <<"e", "@", "x">>}
PemValues == {<<>>, <<BODY>>}

InitTools ==
    /\ tool = "host"
    /\ pc = "start"
    /\ exitCode = 0
    /\ dest = Url(HTTPS, <<>>, GITHUB_COM, <<>>)
    /\ github_token = <<>>
    /\ branch = None
    /\ tempExists = FALSE
    /\ tempCreated = FALSE
    /\ origin = NoRemote
    /\ tracking = {}
    /\ locals = {}
    /\ remote_branches = <<>>
    /\ idx = 1
    /\ cmds = <<>>
    /\ pushed = {}
    /\ out = <<>>
    /\ failed = {}
    /\ auth = AuthResult("none", <<>>, <<>>)
    /\ creds \in CredValues
    /\ email \in EmailValues
    /\ envCert \in PemValues
    /\ envKey \in PemValues
    /\ certFile = NoFile /\ keyFile = NoFile /\ helperFile = NoFile
    /\ gitconfig = {}
    /\ \E t \in Entries :
        /\ run = <<[tool |-> t, at |-> EntryAt(t)]>>
        /\ destExists \in (IF t = "clone_repo" THEN BOOLEAN ELSE {FALSE})
    /\ loc = <<NewLoc>>
    /\ probe = <<NoProbe>>
    /\ gets = 0

(***************************************************************************)
(* The global git configuration                                            *)
(***************************************************************************)
\* a setting: http.<name> (scope "global"), http.https://api.cip.audi.de/.<name>
\* (scope "domain"), http.<server_url>.<name> (scope "server"), or
\* credential.helper
Setting(scope, name) == [scope |-> scope, name |-> name]

\* clone_repo.py lines 29-42 and get_repo_info.py lines 314-318
CertConfig ==
    <<Setting("global", "sslCert"), Setting("global", "sslKey"),
      Setting("server", "sslVerify")>>

\* github_funcs.py lines 412-432
DualConfig ==
    <<Setting("global", "sslCert"), Setting("global", "sslKey"),
      Setting("global", "sslVerify"), Setting("global", "sslCertPasswordProtected"),
      Setting("domain", "sslCert"), Setting("domain", "sslKey"),
      Setting("domain", "sslVerify"),
      Setting("server", "sslCert"), Setting("server", "sslKey"),
      Setting("server", "sslVerify"),
      Setting("global", "followRedirects"), Setting("global", "userAgent")>>

CredentialHelper == Setting("credential", "helper")

Range(seq) == {seq[i] : i \in DOMAIN seq}

\* a configurator that leaves out the key
InstalledWithoutKey(list, k) ==
    {list[i] : i \in 1..k} \ {Setting("global", "sslKey")}

\* the settings of `list` up to position k
Installed(list, k) == {list[i] : i \in 1..k}

\* cleanup_git_config: the three --unset commands
CleanedConfig(cfg) == cfg \ Range(CertConfig)

\* whether another `git config` command of invocation p may fail
ConfigOutcomes(p) ==
    IF loc[p].cfgFailures < MaxConfigFailures THEN BOOLEAN ELSE {TRUE}

\* how often the invocations of set S have run cleanup_git_config
RECURSIVE Cleanups(_)
Cleanups(S) ==
    IF S = {} THEN 0
    ELSE LET q == CHOOSE q \in S : TRUE
         IN  loc[q].cleanups + Cleanups(S \ {q})

\* the cleanups of the invocations other than p
OthersCleanups(p) == Cleanups(Procs \ {p})

\* git presents the client certificate: the settings are installed and the
\* files exist
CertInstalled ==
    /\ Range(CertConfig) \subseteq gitconfig
    /\ certFile # NoFile /\ keyFile # NoFile

\* a git network command of invocation p, with what was installed then
NetCall(p, cmd, withCreds, viaEnv) ==
    Append(loc[p].net, [cmd |-> cmd, cert |-> viaEnv \/ CertInstalled,
                        creds |-> withCreds,
                        disturbed |-> OthersCleanups(p) > loc[p].mark])

(***************************************************************************)
(* test_bitbucket_connection                                               *)
(***************************************************************************)
HttpOutcomes ==
    {[kind |-> "response", status |-> st, json |-> j] :
        st \in {HTTP_OK, HTTP_UNAUTHORIZED, 403, 500}, j \in BOOLEAN}
    \cup {[kind |-> k, status |-> 0, json |-> FALSE] :
            k \in {"SSLError", "ConnectionError", "RequestException"}}

ConfigError == [kind |-> "ValueError", status |-> 0, json |-> FALSE]

\* lines 140-146: requests.get without timeout, and a server that accepts
\* the connection and never answers: the call does not return
NoResponse == [kind |-> "no response", status |-> 0, json |-> FALSE]

\* lines 174-186: the handlers end with `except Exception`
ProbeCatches(exc) == exc \notin {"SystemExit", "KeyboardInterrupt"}

\* a prober that takes every answer of the server for success
ProbeReturnAnyResponse(o) == o.kind = "response"

\* lines 151-186: True for status 200, parsed or not, False otherwise
ProbeReturn(o) == o.kind = "response" /\ o.status = HTTP_OK

\* the probe ends with outcome o after n GET requests
ProbeEnds(p, o, n) ==
    probe' = [probe EXCEPT ![p] =
                [done |-> TRUE,
                 result |-> ProbeReturn(o),
                 raised |-> o.kind # "response" /\ ~ProbeCatches(o.kind),
                 gets |-> n,
                 outcome |-> o]]

\* lines 125-128
ProbeCertFiles(p) ==
    /\ At(p, "probe")
    /\ certFile' = CertFileAfter(CLIENT_CERT, CLIENT_KEY, certFile)
    /\ keyFile' = KeyFileAfter(CLIENT_CERT, CLIENT_KEY, keyFile)
    /\ IF ProvisionRaises(CLIENT_CERT, CLIENT_KEY)
       THEN ProbeEnds(p, ConfigError, 0) /\ Goto(p, "probed")
       ELSE Goto(p, "probe_auth") /\ UNCHANGED probe
    /\ UNCHANGED <<toolVars, envVars, helperFile, gitconfig, destExists, loc, gets>>

\* line 129
ProbeAuth(p) ==
    /\ At(p, "probe_auth")
    /\ IF get_bitbucket_auth(creds).kind = "ValueError"
       THEN ProbeEnds(p, ConfigError, 0) /\ Goto(p, "probed")
       ELSE Goto(p, "probe_get") /\ UNCHANGED probe
    /\ UNCHANGED <<toolVars, envVars, certFile, keyFile, helperFile, gitconfig,
                   destExists, loc, gets>>

\* lines 131-186
ProbeGet(p) ==
    /\ At(p, "probe_get")
    /\ \E o \in HttpOutcomes \cup {NoResponse} :
        IF o = NoResponse
        THEN Goto(p, "blocked") /\ UNCHANGED probe
        ELSE Goto(p, "probed") /\ ProbeEnds(p, o, 1)
    /\ gets' = gets + 1
    /\ UNCHANGED <<toolVars, envVars, certFile, keyFile, helperFile, gitconfig,
                   destExists, loc>>

\* the process of invocation p ends with exit status code
Exit(p, code) ==
    /\ run' = [run EXCEPT ![p].at = "exit"]
    /\ loc' = [loc EXCEPT ![p].exit = code]

\* test_bitbucket.py main
TestBitbucketExit(p) ==
    /\ At(p, "probed") /\ ToolOf(p) = "test_bitbucket" /\ ~probe[p].raised
    /\ Exit(p, IF probe[p].result THEN 0 ELSE 1)
    /\ UNCHANGED <<toolVars, envVars, certFile, keyFile, helperFile, gitconfig,
                   destExists, probe, gets>>

(***************************************************************************)
(* clone_repo.py                                                           *)
(***************************************************************************)
\* how many of the three `git config` commands run before one fails
CertSetupCounts(p) ==
    {k \in 0..Len(CertConfig) : k = Len(CertConfig) \/ FALSE \in ConfigOutcomes(p)}

\* lines 47-50: command k + 1 failed, CalledProcessError becomes RuntimeError
ConfigRaises(k) ==
    ~ProvisionRaises(CLIENT_CERT, CLIENT_KEY) /\ k < Len(CertConfig)

\* setup_git_with_certificates raises: ValueError of setup_client_cert_files,
\* or RuntimeError when command k + 1 failed
CertSetupRaises(k) ==
    ProvisionRaises(CLIENT_CERT, CLIENT_KEY) \/ ConfigRaises(k)

\* the files and settings setup_git_with_certificates leaves, k commands done
CertSetupEffect(k) ==
    /\ certFile' = CertFileAfter(CLIENT_CERT, CLIENT_KEY, certFile)
    /\ keyFile' = KeyFileAfter(CLIENT_CERT, CLIENT_KEY, keyFile)
    /\ gitconfig' = IF ProvisionRaises(CLIENT_CERT, CLIENT_KEY)
                    THEN gitconfig
                    ELSE gitconfig \cup Installed(CertConfig, k)

FailuresAfter(p, k) ==
    IF ConfigRaises(k)
    THEN loc[p].cfgFailures + 1
    ELSE loc[p].cfgFailures

\* the outcomes of a git command that talks to the server
NetOutcomes == {"ok", "failed", "timeout"}

TAB == "\t"
REFS_HEADS == <<"r", "e", "f", "s", "/", "h", "e", "a", "d", "s", "/">>

\* a line of `git ls-remote --heads`: "<commit>\trefs/heads/<branch>"
RefLine(i) == <<"c", Digits[i], TAB>> \o REFS_HEADS \o BranchName(i)

\* stdout of a successful `git ls-remote --heads`: of a repository without
\* branches (nothing, or an empty line), with one branch, with two
LsRemoteOutputs ==
    {<<>>, <<NL>>, RefLine(1) \o <<NL>>,
     RefLine(1) \o <<NL>> \o RefLine(2) \o <<NL>>}

\* what `git ls-remote --heads` prints with outcome o
LsRemoteStdout(o) == IF o = "ok" THEN LsRemoteOutputs ELSE {<<>>}

\* a listing that splits the output without looking whether it is empty
ListedRefsUnguarded(stdout) == SplitLines(Strip(stdout))

\* clone_repo.py line 103, github_funcs.py line 532, list_bitbucket_repos.py
\* line 145: stdout.strip().split('\n') if stdout.strip() else []
ListedRefs(stdout) ==
    IF Truthy(Strip(stdout)) THEN SplitLines(Strip(stdout)) ELSE <<>>

\* get_repo_info.py lines 348-349: the lines that are not empty
NonEmptyLines(lines) == SelectSeq(lines, LAMBDA line : Truthy(line))

\* line.split('\t')[1] raises IndexError for a line without a tab
IndexRaises(stdout) ==
    \E i \in DOMAIN NonEmptyLines(SplitLines(Strip(stdout))) :
        Len(Split1(NonEmptyLines(SplitLines(Strip(stdout)))[i], TAB)) < 2

\* line.split('\t')[1].replace('refs/heads/', '')
BranchOfLine(line) ==
    Replace(Split1(Split1(line, TAB)[2], TAB)[1], REFS_HEADS, <<>>)

\* get_repo_info.py lines 348-349
InfoBranches(stdout) ==
    LET lines == NonEmptyLines(SplitLines(Strip(stdout)))
    IN  [i \in DOMAIN lines |-> BranchOfLine(lines[i])]

\* the record of a `git ls-remote --heads` call: its result, whether the
\* caller took it for a success, and the refs it read
Listing(o, stdout, success, refs) ==
    [ran |-> TRUE, ok |-> (o = "ok"), stdout |-> stdout, success |-> success,
     refs |-> refs]

\* clone_repository lines 133-139
CloneAfterProbe(p) ==
    /\ At(p, "probed") /\ ToolOf(p) = "clone_repo" /\ ~probe[p].raised
    /\ IF ~probe[p].result
       THEN /\ Goto(p, "clone_returned")
            /\ loc' = [loc EXCEPT ![p].result = FALSE]
       ELSE /\ Goto(p, "access_setup")
            /\ loc' = [loc EXCEPT ![p].cert_path = FALSE]
    /\ UNCHANGED <<toolVars, envVars, certFile, keyFile, helperFile, gitconfig,
                   destExists, probe, gets>>

\* test_repository_access lines 87-89
AccessSetup(p) ==
    /\ At(p, "access_setup")
    /\ \E k \in CertSetupCounts(p) :
        /\ CertSetupEffect(k)
        /\ loc' = [loc EXCEPT ![p].cfgFailures = FailuresAfter(p, k),
                              ![p].raised = ConfigRaises(k),
                              ![p].mark = OthersCleanups(p),
                              ![p].access = FALSE]
        /\ Goto(p, IF CertSetupRaises(k) THEN "access_cleanup" ELSE "access_lsremote")
    /\ UNCHANGED <<toolVars, envVars, helperFile, destExists, probe, gets>>

\* test_repository_access lines 91-115
AccessLsRemote(p) ==
    /\ At(p, "access_lsremote")
    /\ \E o \in NetOutcomes : \E stdout \in LsRemoteStdout(o) :
        loc' = [loc EXCEPT ![p].access = (o = "ok"),
                           ![p].net = NetCall(p, "ls-remote", FALSE, FALSE),
                           ![p].listing = Listing(o, stdout, o = "ok",
                               IF o = "ok" THEN ListedRefs(stdout) ELSE <<>>)]
    /\ Goto(p, "access_cleanup")
    /\ UNCHANGED <<toolVars, envVars, certFile, keyFile, helperFile, gitconfig,
                   destExists, probe, gets>>

\* test_repository_access lines 116-117, then its caller: clone_repository
\* lines 143-147 or main lines 299-307
AccessCleanup(p) ==
    /\ At(p, "access_cleanup")
    /\ gitconfig' = CleanedConfig(gitconfig)
    /\ IF ToolOf(p) = "clone_repo_test"
       THEN /\ Goto(p, "exit")
            /\ loc' = [loc EXCEPT ![p].exit = IF loc[p].access THEN 0 ELSE 1,
                                  ![p].cleanups = @ + 1]
       ELSE /\ Goto(p, IF loc[p].access THEN "clone_setup" ELSE "clone_finally")
            /\ loc' = [loc EXCEPT ![p].result = FALSE, ![p].cleanups = @ + 1]
    /\ UNCHANGED <<toolVars, envVars, certFile, keyFile, helperFile, destExists,
                   probe, gets>>

\* clone_repository lines 149-153
CloneSetup(p) ==
    /\ At(p, "clone_setup")
    /\ \E k \in CertSetupCounts(p) :
        /\ CertSetupEffect(k)
        /\ loc' = [loc EXCEPT ![p].cfgFailures = FailuresAfter(p, k),
                              ![p].raised = ConfigRaises(k),
                              ![p].mark = OthersCleanups(p),
                              ![p].cert_path = ~CertSetupRaises(k),
                              ![p].result = FALSE]
        /\ Goto(p, IF CertSetupRaises(k) THEN "clone_finally" ELSE "clone_dest")
    /\ UNCHANGED <<toolVars, envVars, helperFile, destExists, probe, gets>>

\* what input() at line 162 gives: an answer, or EOFError
Responses == {"y", "n", "EOFError"}

\* clone_repository lines 155-170
CloneCheckDest(p) ==
    /\ At(p, "clone_dest")
    /\ IF destExists
       THEN \E response \in Responses :
            /\ destExists' = (response # "y")
            /\ loc' = [loc EXCEPT ![p].prompted = TRUE, ![p].result = FALSE]
            /\ Goto(p, IF response = "y" THEN "clone_git" ELSE "clone_finally")
       ELSE /\ Goto(p, "clone_git")
            /\ UNCHANGED <<destExists, loc>>
    /\ UNCHANGED <<toolVars, envVars, certFile, keyFile, helperFile, gitconfig,
                   probe, gets>>

\* lines 184-189: subprocess.run of git clone without timeout; it exits with
\* status 0 or another status, or never exits when the server never answers
CloneOutcomes == {"ok", "failed", "no response"}

\* clone_repository lines 172-228
CloneGit(p) ==
    /\ At(p, "clone_git")
    /\ \E o \in CloneOutcomes :
        /\ destExists' = (o = "ok")
        /\ loc' = [loc EXCEPT ![p].result = (o = "ok"),
                              ![p].net = NetCall(p, "clone", FALSE, FALSE)]
        /\ Goto(p, IF o = "no response" THEN "blocked" ELSE "clone_finally")
    /\ UNCHANGED <<toolVars, envVars, certFile, keyFile, helperFile, gitconfig,
                   probe, gets>>

\* clone_repository lines 234-251
CloneFinally(p) ==
    /\ At(p, "clone_finally")
    /\ gitconfig' = CleanedConfig(gitconfig)
    /\ certFile' = IF loc[p].cert_path THEN NoFile ELSE certFile
    /\ keyFile' = IF loc[p].cert_path THEN NoFile ELSE keyFile
    /\ loc' = [loc EXCEPT ![p].cleanups = @ + 1]
    /\ Goto(p, "clone_returned")
    /\ UNCHANGED <<toolVars, envVars, helperFile, destExists, probe, gets>>

\* main lines 315-326
CloneMainExit(p) ==
    /\ At(p, "clone_returned")
    /\ Exit(p, IF loc[p].result THEN 0 ELSE 1)
    /\ UNCHANGED <<toolVars, envVars, certFile, keyFile, helperFile, gitconfig,
                   destExists, probe, gets>>

(***************************************************************************)
(* get_repo_info.py                                                        *)
(***************************************************************************)
\* main lines 454-459
InfoAfterProbe(p) ==
    /\ At(p, "probed") /\ ToolOf(p) = "get_repo_info" /\ ~probe[p].raised
    /\ IF probe[p].result
       THEN Goto(p, "info_setup") /\ UNCHANGED loc
       ELSE Exit(p, 1)
    /\ UNCHANGED <<toolVars, envVars, certFile, keyFile, helperFile, gitconfig,
                   destExists, probe, gets>>

\* get_git_repo_info lines 334-336 with setup_git_with_certificates lines
\* 308-323; an exception is caught at lines 439-444 and main exits at 463-464
InfoSetup(p) ==
    /\ At(p, "info_setup")
    /\ \E k \in CertSetupCounts(p) :
        /\ CertSetupEffect(k)
        /\ Goto(p, IF CertSetupRaises(k) THEN "exit" ELSE "info_heads")
        /\ loc' = [loc EXCEPT ![p].cfgFailures = FailuresAfter(p, k),
                              ![p].raised = ConfigRaises(k),
                              ![p].mark = OthersCleanups(p),
                              ![p].exit = IF CertSetupRaises(k) THEN 1 ELSE 0]
    /\ UNCHANGED <<toolVars, envVars, helperFile, destExists, probe, gets>>

\* get_git_repo_info lines 338-357
InfoHeads(p) ==
    /\ At(p, "info_heads")
    /\ \E o \in NetOutcomes : \E stdout \in LsRemoteStdout(o) :
        LET success == o = "ok" /\ ~IndexRaises(stdout)
        IN  /\ run' = [run EXCEPT ![p].at = IF success THEN "info_tags" ELSE "exit"]
            /\ loc' = [loc EXCEPT ![p].net = NetCall(p, "ls-remote", FALSE, FALSE),
                                  ![p].exit = IF success THEN 0 ELSE 1,
                                  ![p].listing = Listing(o, stdout, success,
                                      IF success THEN InfoBranches(stdout) ELSE <<>>)]
    /\ UNCHANGED <<toolVars, envVars, certFile, keyFile, helperFile, gitconfig,
                   destExists, probe, gets>>

\* get_git_repo_info lines 359-381
InfoTags(p) ==
    /\ At(p, "info_tags")
    /\ \E o \in NetOutcomes :
        /\ run' = [run EXCEPT ![p].at = IF o = "timeout" THEN "exit" ELSE "info_clone"]
        /\ loc' = [loc EXCEPT ![p].net = NetCall(p, "ls-remote", FALSE, FALSE),
                              ![p].exit = IF o = "timeout" THEN 1 ELSE 0]
    /\ UNCHANGED <<toolVars, envVars, certFile, keyFile, helperFile, gitconfig,
                   destExists, probe, gets>>

\* get_git_repo_info lines 383-437: the shallow clone goes to a temporary
\* directory that is removed again; main ends at line 468
InfoClone(p) ==
    /\ At(p, "info_clone")
    /\ \E o \in NetOutcomes :
        /\ run' = [run EXCEPT ![p].at = "exit"]
        /\ loc' = [loc EXCEPT ![p].net = NetCall(p, "clone", FALSE, FALSE),
                              ![p].result = (o # "timeout"),
                              ![p].exit = IF o = "timeout" THEN 1 ELSE 0]
    /\ UNCHANGED <<toolVars, envVars, certFile, keyFile, helperFile, gitconfig,
                   destExists, probe, gets>>

(***************************************************************************)
(* setup_git_with_dual_auth and test_git_dual_auth                         *)
(***************************************************************************)
\* lines 442-448: the lines of the helper script that carry the credentials
HelperScript(username, password) ==
    <<"u", "s", "e", "r", "n", "a", "m", "e", "=">> \o username \o <<NL>>
        \o <<"p", "a", "s", "s", "w", "o", "r", "d", "=">> \o password

\* where the caller of test_git_dual_auth goes on
AfterDualAuth(p) ==
    IF ToolOf(p) = "list_bitbucket_repos" THEN "list_report" ELSE "returned"

\* lines 399-405: the credentials of get_bitbucket_auth, or "", ""
DualCredentials(c) ==
    IF get_bitbucket_auth(c).kind = "ok" THEN get_bitbucket_auth(c)
    ELSE AuthResult("ok", <<>>, <<>>)

\* setup_git_with_dual_auth lines 394-409; a ValueError of
\* setup_client_cert_files is caught by test_git_dual_auth lines 567-569
DualSetup(p) ==
    /\ At(p, "dual_setup")
    /\ certFile' = CertFileAfter(CLIENT_CERT, CLIENT_KEY, certFile)
    /\ keyFile' = KeyFileAfter(CLIENT_CERT, CLIENT_KEY, keyFile)
    /\ IF ProvisionRaises(CLIENT_CERT, CLIENT_KEY)
       THEN /\ Goto(p, AfterDualAuth(p))
            /\ loc' = [loc EXCEPT ![p].access = FALSE]
       ELSE /\ Goto(p, "dual_config")
            /\ loc' = [loc EXCEPT ![p].username = DualCredentials(creds).username,
                                  ![p].password = DualCredentials(creds).password,
                                  ![p].cfg = 1]
    /\ UNCHANGED <<toolVars, envVars, helperFile, gitconfig, destExists, probe, gets>>

\* setup_git_with_dual_auth lines 411-435: one command of the loop
DualConfigStep(p) ==
    /\ At(p, "dual_config")
    /\ \E ok \in ConfigOutcomes(p) :
        /\ gitconfig' = IF ok THEN gitconfig \cup {DualConfig[loc[p].cfg]}
                        ELSE gitconfig
        /\ loc' = [loc EXCEPT ![p].cfg = @ + 1,
                              ![p].cfgFailures = IF ok THEN @ ELSE @ + 1]
    /\ Goto(p, IF loc[p].cfg = Len(DualConfig) THEN "dual_helper" ELSE "dual_config")
    /\ UNCHANGED <<toolVars, envVars, certFile, keyFile, helperFile, destExists,
                   probe, gets>>

\* a configurator that asks for the password only
HelperWantedForPassword(username, password) == Truthy(password)

\* line 438: if username and password
HelperWanted(username, password) == Truthy(username) /\ Truthy(password)

\* setup_git_with_dual_auth lines 437-465
DualHelper(p) ==
    /\ At(p, "dual_helper")
    /\ IF HelperWanted(loc[p].username, loc[p].password)
       THEN /\ helperFile' = HelperScript(loc[p].username, loc[p].password)
            /\ \E ok \in ConfigOutcomes(p) :
                /\ gitconfig' = IF ok THEN gitconfig \cup {CredentialHelper}
                                ELSE gitconfig
                /\ loc' = [loc EXCEPT ![p].returned_creds = TRUE,
                                      ![p].cfgFailures = IF ok THEN @ ELSE @ + 1]
       ELSE /\ loc' = [loc EXCEPT ![p].returned_creds = FALSE]
            /\ UNCHANGED <<helperFile, gitconfig>>
    /\ Goto(p, "dual_lsremote")
    /\ UNCHANGED <<toolVars, envVars, certFile, keyFile, destExists, probe, gets>>

\* test_git_dual_auth lines 482-569
DualLsRemote(p) ==
    /\ At(p, "dual_lsremote")
    /\ \E o \in NetOutcomes : \E stdout \in LsRemoteStdout(o) :
        loc' = [loc EXCEPT ![p].access = (o = "ok"),
                           ![p].net = NetCall(p, "ls-remote", loc[p].returned_creds, TRUE),
                           ![p].listing = Listing(o, stdout, o = "ok",
                               IF o = "ok" THEN ListedRefs(stdout) ELSE <<>>)]
    /\ Goto(p, AfterDualAuth(p))
    /\ UNCHANGED <<toolVars, envVars, certFile, keyFile, helperFile, gitconfig,
                   destExists, probe, gets>>

(***************************************************************************)
(* list_bitbucket_repos.py                                                 *)
(***************************************************************************)
\* main lines 182-187
ListAfterProbe(p) ==
    /\ At(p, "probed") /\ ToolOf(p) = "list_bitbucket_repos" /\ ~probe[p].raised
    /\ IF probe[p].result
       THEN Goto(p, "list_diagnose") /\ UNCHANGED loc
       ELSE Exit(p, 1)
    /\ UNCHANGED <<toolVars, envVars, certFile, keyFile, helperFile, gitconfig,
                   destExists, probe, gets>>

\* what curl at lines 67-73 gives
CurlOutcomes == {"200", "401 Basic", "401", "other", "failed", "timeout"}

\* lines 88-103
AvailableCredentials(c, e) ==
    IF Truthy(c) /\ Contains(c, COLON) THEN "dual_auth_possible"
    ELSE IF Truthy(e) THEN "partial_creds"
    ELSE "no_creds"

\* diagnose_authentication_requirements lines 63-107
Diagnosis(curl, c, e) ==
    CASE ProvisionRaises(CLIENT_CERT, CLIENT_KEY) -> "unknown"
      [] OTHER ->
           CASE curl = "timeout" -> "unknown"
             [] curl = "200" -> "client_cert_only"
             [] curl = "401 Basic" -> "dual_auth_required"
             [] OTHER -> AvailableCredentials(c, e)

\* test_repository_access lines 114-117 and the branch taken at 119-173
ListDiagnose(p) ==
    /\ At(p, "list_diagnose")
    /\ certFile' = CertFileAfter(CLIENT_CERT, CLIENT_KEY, certFile)
    /\ keyFile' = KeyFileAfter(CLIENT_CERT, CLIENT_KEY, keyFile)
    /\ \E curl \in CurlOutcomes :
        LET auth_status == Diagnosis(curl, creds, email)
        IN  /\ loc' = [loc EXCEPT ![p].auth_status = auth_status,
                                  ![p].access = FALSE]
            /\ Goto(p, CASE auth_status = "client_cert_only" -> "list_certonly"
                         [] auth_status \in {"dual_auth_required", "dual_auth_possible"}
                              -> "dual_setup"
                         [] OTHER -> "list_report")
    /\ UNCHANGED <<toolVars, envVars, helperFile, gitconfig, destExists, probe, gets>>

\* test_repository_access lines 119-153
ListCertOnly(p) ==
    /\ At(p, "list_certonly")
    /\ certFile' = CertFileAfter(CLIENT_CERT, CLIENT_KEY, certFile)
    /\ keyFile' = KeyFileAfter(CLIENT_CERT, CLIENT_KEY, keyFile)
    /\ IF ProvisionRaises(CLIENT_CERT, CLIENT_KEY)
       THEN loc' = [loc EXCEPT ![p].access = FALSE]
       ELSE \E o \in NetOutcomes : \E stdout \in LsRemoteStdout(o) :
            loc' = [loc EXCEPT ![p].access = (o = "ok"),
                               ![p].net = NetCall(p, "ls-remote", FALSE, TRUE),
                               ![p].listing = Listing(o, stdout, o = "ok",
                                   IF o = "ok" THEN ListedRefs(stdout) ELSE <<>>)]
    /\ Goto(p, "list_report")
    /\ UNCHANGED <<toolVars, envVars, helperFile, gitconfig, destExists, probe, gets>>

\* main lines 203-236: the report, and the script ends without sys.exit
ListReport(p) ==
    /\ At(p, "list_report")
    /\ run' = [run EXCEPT ![p].at = "exit"]
    /\ loc' = [loc EXCEPT ![p].result = loc[p].access, ![p].exit = 0]
    /\ UNCHANGED <<toolVars, envVars, certFile, keyFile, helperFile, gitconfig,
                   destExists, probe, gets>>

(***************************************************************************)
(* The host                                                                *)
(***************************************************************************)
Finished(p) == run[p].at \in {"exit", "returned"}

NextTools ==
    \/ \E p \in Procs : ProbeCertFiles(p)
    \/ \E p \in Procs : ProbeAuth(p)
    \/ \E p \in Procs : ProbeGet(p)
    \/ \E p \in Procs : TestBitbucketExit(p)
    \/ \E p \in Procs : CloneAfterProbe(p)
    \/ \E p \in Procs : AccessSetup(p)
    \/ \E p \in Procs : AccessLsRemote(p)
    \/ \E p \in Procs : AccessCleanup(p)
    \/ \E p \in Procs : CloneSetup(p)
    \/ \E p \in Procs : CloneCheckDest(p)
    \/ \E p \in Procs : CloneGit(p)
    \/ \E p \in Procs : CloneFinally(p)
    \/ \E p \in Procs : CloneMainExit(p)
    \/ \E p \in Procs : InfoAfterProbe(p)
    \/ \E p \in Procs : InfoSetup(p)
    \/ \E p \in Procs : InfoHeads(p)
    \/ \E p \in Procs : InfoTags(p)
    \/ \E p \in Procs : InfoClone(p)
    \/ \E p \in Procs : DualSetup(p)
    \/ \E p \in Procs : DualConfigStep(p)
    \/ \E p \in Procs : DualHelper(p)
    \/ \E p \in Procs : DualLsRemote(p)
    \/ \E p \in Procs : ListAfterProbe(p)
    \/ \E p \in Procs : ListDiagnose(p)
    \/ \E p \in Procs : ListCertOnly(p)
    \/ \E p \in Procs : ListReport(p)

SpecTools == InitTools /\ [][NextTools]_vars

(***************************************************************************)
(* Two invocations of clone_repo.py on one host, with working credentials, *)
(* certificate and key                                                     *)
(***************************************************************************)
InitTwoClones ==
    /\ tool = "host"
    /\ pc = "start"
    /\ exitCode = 0
    /\ dest = Url(HTTPS, <<>>, GITHUB_COM, <<>>)
    /\ github_token = <<>>
    /\ branch = None
    /\ tempExists = FALSE
    /\ tempCreated = FALSE
    /\ origin = NoRemote
    /\ tracking = {}
    /\ locals = {}
    /\ remote_branches = <<>>
    /\ idx = 1
    /\ cmds = <<>>
    /\ pushed = {}
    /\ out = <<>>
    /\ failed = {}
    /\ auth = AuthResult("none", <<>>, <<>>)
    /\ creds = <<"u", COLON, "p">>
    /\ email = <<>>
    /\ envCert = <<BODY>>
    /\ envKey = <<BODY>>
    /\ certFile = NoFile /\ keyFile = NoFile /\ helperFile = NoFile
    /\ gitconfig = {}
    /\ destExists = FALSE
    /\ run = <<[tool |-> "clone_repo", at |-> EntryAt("clone_repo")],
               [tool |-> "clone_repo", at |-> EntryAt("clone_repo")]>>
    /\ loc = <<NewLoc, NewLoc>>
    /\ probe = <<NoProbe, NoProbe>>
    /\ gets = 0

NextTwoClones ==
    \/ \E p \in Procs : ProbeCertFiles(p)
    \/ \E p \in Procs : ProbeAuth(p)
    \/ \E p \in Procs : ProbeGet(p)
    \/ \E p \in Procs : CloneAfterProbe(p)
    \/ \E p \in Procs : AccessSetup(p)
    \/ \E p \in Procs : AccessLsRemote(p)
    \/ \E p \in Procs : AccessCleanup(p)
    \/ \E p \in Procs : CloneSetup(p)
    \/ \E p \in Procs : CloneCheckDest(p)
    \/ \E p \in Procs : CloneGit(p)
    \/ \E p \in Procs : CloneFinally(p)
    \/ \E p \in Procs : CloneMainExit(p)

SpecTwoClones == InitTwoClones /\ [][NextTwoClones]_vars

(***************************************************************************)
(* Properties of the tools on a host                                       *)
(***************************************************************************)
\* the git transport of invocation p has its credentials: lines 399-405 of
\* setup_git_with_dual_auth are done
TransportResolved(p) ==
    run[p].at \in {"dual_config", "dual_helper", "dual_lsremote"}

\* C12: when JIRA_USER_CREDS is absent and KUBIYA_USER_EMAIL is set, the
\* credential of the git transport has a non-empty user name, taken from the
\* email, and an empty password.
C12_EmailDerivedUsername ==
    \A p \in Procs :
        (TransportResolved(p) /\ ~Truthy(creds) /\ Truthy(email))
            => (Truthy(loc[p].username) /\ ~Truthy(loc[p].password))

CertAndKeyPresent == Truthy(CLIENT_CERT) /\ Truthy(CLIENT_KEY)

\* C13: when JIRA_USER_CREDS is absent and the certificate and key are
\* present, a probe that has ended has issued its GET: it did not end at
\* credential resolution.
C13_ProbeReachesNetworkWithoutCreds ==
    \A p \in Procs :
        (probe[p].done /\ ~Truthy(creds) /\ CertAndKeyPresent)
            => probe[p].gets = 1

\* clone_repository of invocation p has returned
CloneReturned(p) ==
    ToolOf(p) = "clone_repo" /\ run[p].at \in {"clone_returned", "exit"}

\* C16: after clone_repository has returned, on every path, neither the
\* certificate file nor the key file exists.
C16_CertFilesGoneAfterClone ==
    \A p \in Procs :
        CloneReturned(p) => (certFile = NoFile /\ keyFile = NoFile)

\* the settings the configurators write
ConfiguratorSettings ==
    Range(CertConfig) \cup Range(DualConfig) \cup {CredentialHelper}

\* C17: when a tool has finished, no setting written by a configurator is
\* left in the global git configuration.
C17_ConfigRemovedAtFinish ==
    \A p \in Procs :
        Finished(p) => gitconfig \cap ConfiguratorSettings = {}

\* C18: the setting that switches off TLS verification for every host,
\* http.sslVerify=false, is never in the global git configuration: only the
\* settings scoped to the Bitbucket server are.
C18_OtherHostsStillVerified ==
    Setting("global", "sslVerify") \notin gitconfig

\* C19: a probe that has ended has issued at most one GET, exactly one when
\* the server or the network gave the outcome; it reports success exactly
\* for a response with status 200, with or without a parsable body, reports
\* failure for every other status and for every error, and does not raise.
C19_ProbeSucceedsExactlyOn200 ==
    \A p \in Procs :
        probe[p].done =>
            LET o == probe[p].outcome
            IN  /\ probe[p].gets = (IF o = ConfigError THEN 0 ELSE 1)
                /\ gets <= Len(run)
                /\ (o.kind = "response" /\ o.status = HTTP_OK) => probe[p].result
                /\ (o.kind = "response" /\ o.status # HTTP_OK) => ~probe[p].result
                /\ o.kind # "response" => ~probe[p].result
                /\ ~probe[p].raised

C19_Witness ==
    \E p \in Procs :
        /\ probe[p].done /\ probe[p].result
        /\ probe[p].outcome.status = HTTP_OK /\ ~probe[p].outcome.json
        /\ probe[p].gets = 1

\* the five outcomes of the probe
OutcomeClass(o) ==
    CASE o.kind = "response" /\ o.status = HTTP_OK -> "Success"
      [] o.kind = "response" /\ o.status = HTTP_UNAUTHORIZED -> "AuthFailure"
      [] o.kind = "response" -> "OtherHTTPFailure"
      [] o.kind = "SSLError" -> "TLSFailure"
      [] o.kind = "ConnectionError" -> "NetworkFailure"
      [] OTHER -> "none"

\* C20: the value a probe returns tells which of the five outcomes happened:
\* no outcome of another class gives the same value.
C20_ResultTellsOutcome ==
    \A p \in Procs :
        (probe[p].done /\ OutcomeClass(probe[p].outcome) # "none") =>
            \A o \in HttpOutcomes :
                (OutcomeClass(o) # "none" /\ ProbeReturn(o) = probe[p].result)
                    => OutcomeClass(o) = OutcomeClass(probe[p].outcome)

\* C21: when `git ls-remote --heads` exits with status 0 and prints nothing,
\* the listing is taken for a success and the sequence of refs read from it
\* is empty: it has no entry, and so no empty entry.
C21_EmptyListingIsSuccess ==
    \A p \in Procs :
        (loc[p].listing.ran /\ loc[p].listing.ok
            /\ Strip(loc[p].listing.stdout) = <<>>)
            => (loc[p].listing.success /\ loc[p].listing.refs = <<>>)

C21_Witness ==
    \E p \in Procs :
        /\ ToolOf(p) = "list_bitbucket_repos"
        /\ loc[p].listing.ran /\ loc[p].listing.ok
        /\ loc[p].listing.stdout = <<>>
        /\ loc[p].listing.refs = <<>>

\* C22: clone_repository never waits for an answer on stdin, also when the
\* destination directory exists.
C22_CloneNeverPrompts ==
    \A p \in Procs : ~loc[p].prompted

\* C23: no invocation is left in a call that never returns: every blocking
\* call ends, by its result or by its timeout.
C23_NoCallBlocksForever ==
    \A p \in Procs : ~At(p, "blocked")

\* C28: a `git config` command that fails in a configurator raises no
\* exception: the configurator returns and the operation goes on.
C28_ConfigFailureNotFatal ==
    \A p \in Procs : loc[p].cfgFailures > 0 => ~loc[p].raised

\* setup_git_with_dual_auth of invocation p has just returned
DualAuthReturned(p) == At(p, "dual_lsremote")

HelperWritten == helperFile # NoFile
HelperRegistered == CredentialHelper \in gitconfig

\* C27, as claimed: when setup_git_with_dual_auth has returned and no
\* `git config` command failed, the helper script is written and registered
\* exactly when the resolved password is not empty, and otherwise the
\* returned credentials are None.
C27_HelperIffPassword ==
    \A p \in Procs :
        (DualAuthReturned(p) /\ loc[p].cfgFailures = 0) =>
            /\ Truthy(loc[p].password) <=> (HelperWritten /\ HelperRegistered)
            /\ ~Truthy(loc[p].password) => ~loc[p].returned_creds

\* C27, amended: when setup_git_with_dual_auth has returned, the helper
\* script is written, with these credentials, exactly when the resolved user
\* name and password are both not empty; then the credentials are returned
\* and the helper is registered unless a `git config` command failed;
\* otherwise no file is written, credential.helper is not set and None, None
\* is returned.
C27_HelperIffUsernameAndPassword ==
    \A p \in Procs :
        DualAuthReturned(p) =>
            LET both == Truthy(loc[p].username) /\ Truthy(loc[p].password)
            IN  /\ both <=> HelperWritten
                /\ both => helperFile = HelperScript(loc[p].username, loc[p].password)
                /\ both <=> loc[p].returned_creds
                /\ HelperRegistered => both
                /\ (both /\ loc[p].cfgFailures = 0) => HelperRegistered

C27_Witness ==
    \E p \in Procs :
        /\ DualAuthReturned(p)
        /\ ~Truthy(loc[p].username) /\ Truthy(loc[p].password)
        /\ ~HelperWritten /\ ~HelperRegistered /\ ~loc[p].returned_creds

\* the git clone commands invocation p has run
CloneCalls(p) == {i \in DOMAIN loc[p].net : loc[p].net[i].cmd = "clone"}

\* C24: with two invocations of clone_repository on one host, a git clone
\* runs without the client certificate installed only when the other
\* invocation ran cleanup_git_config after this one configured the transport;
\* and such a clone happens.
C24_CloneWithoutCertOnlyByRace ==
    \A p \in Procs : \A i \in CloneCalls(p) :
        ~loc[p].net[i].cert => loc[p].net[i].disturbed

C24_Witness ==
    \E p \in Procs : \E i \in CloneCalls(p) :
        /\ ~loc[p].net[i].cert
        /\ loc[p].net[i].disturbed
        /\ \E q \in Procs \ {p} : loc[q].cleanups > 0

\* the invocations of test_repository_access and clone_repository
CloneTools(p) == ToolOf(p) \in {"clone_repo", "clone_repo_test"}

BranchesListed == \E i \in CmdIndexes({"branch_r"}) : cmds[i].ok

\* the remote-tracking branches `git branch -r` listed; "origin/HEAD -> ..."
\* is no branch
ListedBranches == IF BranchesListed THEN tracking ELSE {}

\* C25: when the branch phase of a migration is over: with a requested
\* branch, the one `git push -u origin` that ran was for that branch;
\* without, the branches given to `git push -u origin` are exactly the
\* remote-tracking branches `git branch -r` listed, each once.
C25_PushedExactlyListed ==
    (Migrating /\ pc \in {"push_tags", "finish"}) =>
        IF Truthy(branch)
        THEN BranchPushes = <<branch>>
        ELSE /\ Range(BranchPushes) = ListedBranches
             /\ Len(BranchPushes) = Cardinality(ListedBranches)

\* C29: every git push of a migration, of a branch or of the tags, runs
\* while the remote origin is not the Bitbucket source, also after a failed
\* `git remote remove origin` or `git remote add origin`.
C29_NoPushToSource ==
    Migrating =>
        \A i \in CmdIndexes(PushCmds) : cmds[i].remote # BitbucketUrl

\* C30: no line a migration prints contains the destination token: the
\* output is the same for every token value.
C30_TokenNotPrinted ==
    (Migrating /\ Truthy(github_token)) =>
        \A k \in DOMAIN out : ~Contains(out[k].text, github_token)

====
